---- MODULE Spec2Model ----
(***************************************************************************)
(* Money Tracker API (src/main.py, src/schemas.py).                        *)
(*                                                                         *)
(* The record store holds two collections, "category" and "transaction".   *)
(* Four specifications share the state:                                    *)
(*   Spec     category requests served concurrently; every store read and  *)
(*            store insert of a handler is a step of its own;              *)
(*   SpecSeq  the same steps, one request at a time (a request starts only *)
(*            after the previous one has returned);                        *)
(*   SpecTx   POST /transactions, GET /summary and GET /recommendations,   *)
(*            each handler run as a whole;                                 *)
(*   SpecTop  the same handlers over six expense categories.               *)
(***************************************************************************)
EXTENDS Integers, Sequences, FiniteSets, TLC

VARIABLES
    category,     \* the "category" collection: documents in insertion order
    transaction,  \* the "transaction" collection: documents in insertion order
    pc,           \* per category request: the handler's position
    kind,         \* per category request: "none", "list" or "create"
    arg,          \* per category request: payload.name of POST /categories
    seeded,       \* per category request: create_document calls made so far
    new_id,       \* per category request: the local `new_id` of create_category
    pre,          \* per category request: the collection as its first store read saw it
    resp,         \* per category request: the response sent
    out           \* the response of the last transaction / analytics request

vars == <<category, transaction, pc, kind, arg, seeded, new_id, pre, resp, out>>
catVars == <<category, pc, kind, arg, seeded, new_id, pre, resp>>

\* ------------------------------------------------------------------ bounds

\* Category requests per run of Spec (served concurrently).
MaxReq == 2
\* Category requests per run of SpecSeq (served one at a time).
MaxSeq == 4
\* Stored transactions per run of SpecTx.
MaxTx == 3
\* Stored transactions per run of SpecTop.
MaxTop == 6

\* Request slots; Spec uses the first MaxReq, SpecSeq the first MaxSeq.
Req == 1..(IF MaxSeq > MaxReq THEN MaxSeq ELSE MaxReq)
ReqConc == 1..MaxReq
ReqSeq == 1..MaxSeq

\* Python's None where a document or a response is expected.
None == [none |-> TRUE]
\* Python's None in a text field.
Null == "null"

\* ------------------------------------------------------------ the store

\* database.create_document: insert one document; the store assigns the id.
create_document(coll, data) ==
    Append(coll, [_id |-> Len(coll) + 1] @@ data)

\* database.get_documents(name, {}): every document, in insertion order.
get_documents(coll) == coll

\* db[coll].find_one({"name": name}): the first document with that name, or None.
find_one_by_name(coll, name) ==
    IF \E i \in 1..Len(coll) : coll[i].name = name
    THEN coll[CHOOSE i \in 1..Len(coll) :
                  /\ coll[i].name = name
                  /\ \A j \in 1..(i - 1) : coll[j].name # name]
    ELSE None

\* db[coll].find_one({"_id": ObjectId(id)})
find_one_by_id(coll, id) ==
    IF \E i \in 1..Len(coll) : coll[i]._id = id
    THEN coll[CHOOSE i \in 1..Len(coll) : coll[i]._id = id]
    ELSE None

\* to_serializable: "_id" is popped and returned as the string "id".
to_serializable(doc) ==
    IF doc = None THEN doc
    ELSE [k \in (DOMAIN doc \ {"_id"}) \cup {"id"} |->
             IF k = "id" THEN ToString(doc._id) ELSE doc[k]]

SerializeAll(docs) == [i \in 1..Len(docs) |-> to_serializable(docs[i])]

\* ------------------------------------------------------------ categories

defaultsWithoutSalary ==
    << [name |-> "Groceries", icon |-> "ShoppingCart", color |-> "emerald"],
       [name |-> "Rent",      icon |-> "Home",         color |-> "violet"],
       [name |-> "Transport", icon |-> "Bus",          color |-> "sky"],
       [name |-> "Dining",    icon |-> "Utensils",     color |-> "rose"] >>

\* The `defaults` list of list_categories.
defaults ==
    << [name |-> "Groceries", icon |-> "ShoppingCart", color |-> "emerald"],
       [name |-> "Rent",      icon |-> "Home",         color |-> "violet"],
       [name |-> "Transport", icon |-> "Bus",          color |-> "sky"],
       [name |-> "Dining",    icon |-> "Utensils",     color |-> "rose"],
       [name |-> "Salary",    icon |-> "Banknote",     color |-> "amber"] >>

\* Names a client posts to POST /categories: one default name, one new name.
CreateNames == {"Rent", "Food"}

\* CategoryCreate(name=...): icon and color are optional and default to None.
CategoryCreate(name) == [name |-> name, icon |-> Null, color |-> Null]

SeedAlways(its) == TRUE

\* `if not items:` of list_categories.
SeedNeeded(its) == its = <<>>

ExistingIgnored(existing) == FALSE

\* `if existing:` of create_category.
IsDuplicate(existing) == existing # None

Idle(r) == pc[r] = "idle"
Done(r) == pc[r] = "done"

\* Request slots are taken in order: slot r is the r-th request to arrive.
Arrives(r) == Idle(r) /\ (IF r = 1 THEN TRUE ELSE ~Idle(r - 1))

\* GET /categories arrives: items = get_documents("category", {}); a non-empty
\* result is returned at once.
ListGet(r) ==
    /\ Arrives(r)
    /\ kind' = [kind EXCEPT ![r] = "list"]
    /\ pre' = [pre EXCEPT ![r] = get_documents(category)]
    /\ IF SeedNeeded(get_documents(category))
       THEN /\ pc' = [pc EXCEPT ![r] = "seed"]
            /\ resp' = resp
       ELSE /\ pc' = [pc EXCEPT ![r] = "done"]
            /\ resp' = [resp EXCEPT ![r] =
                          [status |-> 200, body |-> SerializeAll(get_documents(category))]]
    /\ UNCHANGED <<category, arg, seeded, new_id, transaction, out>>

\* One turn of `for c in defaults: create_document("category", c)`.
ListSeed(r) ==
    /\ pc[r] = "seed"
    /\ category' = create_document(category, defaults[seeded[r] + 1])
    /\ seeded' = [seeded EXCEPT ![r] = seeded[r] + 1]
    /\ pc' = [pc EXCEPT ![r] = IF seeded[r] + 1 = Len(defaults) THEN "reget" ELSE "seed"]
    /\ UNCHANGED <<kind, arg, new_id, pre, resp, transaction, out>>

\* The second get_documents of list_categories, and the return.
ListReget(r) ==
    /\ pc[r] = "reget"
    /\ resp' = [resp EXCEPT ![r] =
                  [status |-> 200, body |-> SerializeAll(get_documents(category))]]
    /\ pc' = [pc EXCEPT ![r] = "done"]
    /\ UNCHANGED <<category, kind, arg, seeded, new_id, pre, transaction, out>>

\* POST /categories arrives: existing = find_one({"name": payload.name});
\* HTTPException(400) when it exists.
CreateFind(r, name) ==
    /\ Arrives(r)
    /\ kind' = [kind EXCEPT ![r] = "create"]
    /\ arg' = [arg EXCEPT ![r] = name]
    /\ pre' = [pre EXCEPT ![r] = category]
    /\ IF IsDuplicate(find_one_by_name(category, name))
       THEN /\ pc' = [pc EXCEPT ![r] = "done"]
            /\ resp' = [resp EXCEPT ![r] =
                          [status |-> 400, body |-> "Category already exists"]]
       ELSE /\ pc' = [pc EXCEPT ![r] = "insert"]
            /\ resp' = resp
    /\ UNCHANGED <<category, seeded, new_id, transaction, out>>

\* new_id = create_document("category", payload)
CreateInsert(r) ==
    /\ pc[r] = "insert"
    /\ category' = create_document(category, CategoryCreate(arg[r]))
    /\ new_id' = [new_id EXCEPT ![r] = Len(category) + 1]
    /\ pc' = [pc EXCEPT ![r] = "fetch"]
    /\ UNCHANGED <<kind, arg, seeded, pre, resp, transaction, out>>

\* doc = find_one({"_id": ObjectId(new_id)}); return to_serializable(doc)
CreateFetch(r) ==
    /\ pc[r] = "fetch"
    /\ resp' = [resp EXCEPT ![r] =
                  [status |-> 200,
                   body |-> to_serializable(find_one_by_id(category, new_id[r]))]]
    /\ pc' = [pc EXCEPT ![r] = "done"]
    /\ UNCHANGED <<category, kind, arg, seeded, new_id, pre, transaction, out>>

\* No other request is between its arrival and its return.
Exclusive(r) == \A q \in Req \ {r} : Idle(q) \/ Done(q)

\* ---------------------------------------------------------- arithmetic

\* Amounts are counted in units of 1/256 dollar: every amount and every sum of
\* amounts is then a binary fraction, which Python's float holds exactly.
UnitsPerDollar == 2^8

Dollars(n) == n * UnitsPerDollar

\* The quotient n/d (d > 0) rounded to the nearest integer, ties to even:
\* Python's round() on a value the float holds exactly.
RoundHalfEven(n, d) ==
    LET q == n \div d
        r == n % d
    IN  IF 2 * r < d THEN q
        ELSE IF 2 * r > d THEN q + 1
        ELSE IF q % 2 = 0 THEN q ELSE q + 1

Round2Truncating(x) == (100 * x) \div UnitsPerDollar

\* round(x, 2) of an amount in units; the result is in cents.
Round2(x) == RoundHalfEven(100 * x, UnitsPerDollar)

Max(a, b) == IF a >= b THEN a ELSE b
Min(a, b) == IF a <= b THEN a ELSE b

\* ---------------------------------------------------------- transactions

\* A datetime, to the month.
Datetime(y, m) == [year |-> y, month |-> m]

\* datetime.now(timezone.utc) while the model runs.
Clock == {Datetime(2024, 2)}

\* dt.strftime("%Y-%m")
strftime_Ym(dt) ==
    ToString(dt.year) \o "-" \o (IF dt.month < 10 THEN "0" ELSE "") \o ToString(dt.month)

\* dt.astimezone(timezone.utc).isoformat(), to the month.
isoformat(dt) == strftime_Ym(dt) \o "-01T00:00:00+00:00"

\* to_serializable of a transaction document: "_id" becomes the string "id",
\* a datetime becomes its ISO string.
to_serializable_tx(doc) ==
    IF doc = None THEN doc
    ELSE [k \in (DOMAIN doc \ {"_id"}) \cup {"id"} |->
             IF k = "id" THEN ToString(doc._id)
             ELSE IF k = "date" /\ doc[k] # None THEN isoformat(doc[k])
             ELSE doc[k]]

\* A TransactionCreate payload; merchant and note are left out by the client.
Payload(amount, type, cat, date) ==
    [amount |-> amount, type |-> type, category |-> cat,
     merchant |-> Null, note |-> Null, date |-> date]

ValidatesNonNegative(p) ==
    /\ p.amount >= 0
    /\ p.type \in {"expense", "income"}

\* schemas.Transaction: amount gt=0, type Literal["expense", "income"].
Validates(p) ==
    /\ p.amount > 0
    /\ p.type \in {"expense", "income"}

\* POST /transactions: validation (422), the default date, the insert and the
\* read back of the new document.  `out` keeps the request beside the response.
AddTransaction(p) ==
    /\ IF ~Validates(p)
       THEN /\ transaction' = transaction
            /\ out' = [op |-> "add_transaction", request |-> p, status |-> 422,
                      body |-> None]
       ELSE \E now \in Clock :
            LET data == [p EXCEPT !.date = IF p.date = None THEN now ELSE p.date]
                stored == create_document(transaction, data)
                id == Len(transaction) + 1
            IN  /\ transaction' = stored
                /\ out' = [op |-> "add_transaction", request |-> p, status |-> 200,
                           body |-> to_serializable_tx(find_one_by_id(stored, id))]
    /\ UNCHANGED catVars

\* ------------------------------------------------------------- summary

\* t.get(key, default)
Get(t, key, default) == IF key \in DOMAIN t THEN t[key] ELSE default

\* dt = t.get("date") or t.get("created_at"); "%Y-%m" of a datetime, else "unknown".
MonthKey(t) ==
    LET d == Get(t, "date", None)
        dt == IF d # None THEN d ELSE Get(t, "created_at", None)
    IN  IF dt # None THEN strftime_Ym(dt) ELSE "unknown"

\* The position of category cat in the insertion-ordered dict by_category, or 0.
IndexOf(byCat, cat) ==
    IF \E i \in 1..Len(byCat) : byCat[i].category = cat
    THEN CHOOSE i \in 1..Len(byCat) : byCat[i].category = cat
    ELSE 0

\* by_category[cat] = by_category.get(cat, 0) + amt; a new key goes last.
AddToCategory(byCat, cat, amt) ==
    LET i == IndexOf(byCat, cat)
    IN  IF i = 0 THEN Append(byCat, [category |-> cat, total |-> amt])
        ELSE [byCat EXCEPT ![i].total = byCat[i].total + amt]

\* monthly.setdefault(key, {"expense": 0.0, "income": 0.0}); monthly[key][field] += amt
AddToMonth(monthly, key, field, amt) ==
    LET cur == IF key \in DOMAIN monthly THEN monthly[key]
               ELSE [expense |-> 0, income |-> 0]
        new == [cur EXCEPT ![field] = cur[field] + amt]
    IN  [k \in DOMAIN monthly \cup {key} |-> IF k = key THEN new ELSE monthly[k]]

EmptyDict == [k \in {} |-> 0]

Acc0 == [total_expense |-> 0, total_income |-> 0, by_category |-> <<>>,
         monthly |-> EmptyDict]

IncomeCounted(acc, t) ==
    LET amt == Get(t, "amount", 0)
        cat == Get(t, "category", "Uncategorized")
        key == MonthKey(t)
    IN  IF Get(t, "type", "expense") = "expense"
        THEN [acc EXCEPT !.total_expense = @ + amt,
                         !.by_category = AddToCategory(@, cat, amt),
                         !.monthly = AddToMonth(@, key, "expense", amt)]
        ELSE [acc EXCEPT !.total_income = @ + amt,
                         !.by_category = AddToCategory(@, cat, amt),
                         !.monthly = AddToMonth(@, key, "income", amt)]

\* One turn of `for t in txs:` of get_summary.
Accumulate(acc, t) ==
    LET amt == Get(t, "amount", 0)
        cat == Get(t, "category", "Uncategorized")
        key == MonthKey(t)
    IN  IF Get(t, "type", "expense") = "expense"
        THEN [acc EXCEPT !.total_expense = @ + amt,
                         !.by_category = AddToCategory(@, cat, amt),
                         !.monthly = AddToMonth(@, key, "expense", amt)]
        ELSE [acc EXCEPT !.total_income = @ + amt,
                         !.monthly = AddToMonth(@, key, "income", amt)]

RECURSIVE Fold(_, _)
\* The loop of get_summary over txs[1..n].
Fold(txs, n) == IF n = 0 THEN Acc0 ELSE Accumulate(Fold(txs, n - 1), txs[n])

InsertBeforeTies(sorted, x) ==
    LET after == {i \in 1..Len(sorted) : sorted[i].total > x.total}
        k == Cardinality(after)
    IN  SubSeq(sorted, 1, k) \o <<x>> \o SubSeq(sorted, k + 1, Len(sorted))

\* Stable insertion into a list sorted by total, descending: x goes behind
\* every element whose total is >= its own.
InsertStable(sorted, x) ==
    LET after == {i \in 1..Len(sorted) : sorted[i].total >= x.total}
        k == Cardinality(after)
    IN  SubSeq(sorted, 1, k) \o <<x>> \o SubSeq(sorted, k + 1, Len(sorted))

RECURSIVE SortedDesc(_, _)
\* sorted(list, key=lambda x: x["total"], reverse=True) of list[1..n]: stable.
SortedDesc(list, n) ==
    IF n = 0 THEN <<>> ELSE InsertStable(SortedDesc(list, n - 1), list[n])

\* The slice bound of `[:5]`.
TopN == 5

\* list[:5]
Top5(list) == SubSeq(list, 1, Min(TopN, Len(list)))

\* The summary get_summary returns for the stored transactions txs.  The three
\* rounded totals are in cents; by_category, monthly and the totals of
\* top_categories are not rounded and stay in units.
Summary(txs) ==
    LET acc == Fold(txs, Len(txs))
        net == acc.total_income - acc.total_expense
    IN  [total_expense |-> Round2(acc.total_expense),
         total_income |-> Round2(acc.total_income),
         net |-> Round2(net),
         by_category |-> acc.by_category,
         monthly |-> acc.monthly,
         top_categories |-> Top5(SortedDesc(acc.by_category, Len(acc.by_category))),
         count |-> Len(txs)]

\* GET /summary
GetSummary ==
    /\ out' = [op |-> "get_summary", status |-> 200,
               body |-> Summary(get_documents(transaction))]
    /\ UNCHANGED <<transaction>>
    /\ UNCHANGED catVars

\* ------------------------------------------------------- recommendations

\* A recommendation; the advice text is fixed per title and left out.
Rec(title, metric) == [title |-> title, metric |-> metric]

\* The numerator of savings_rate = max(0.0, (income - expense) / income), in
\* cents; the denominator is income (> 0).
SavingsNumerator(income, expense) == Max(0, income - expense)

LowAtThreshold(income, expense) == 5 * SavingsNumerator(income, expense) <= income

\* savings_rate < 0.2
LowSavings(income, expense) == 5 * SavingsNumerator(income, expense) < income

\* The savings-rate rule; metric = round(savings_rate * 100, 1), in tenths of
\* a percent.
SavingsRule(s) ==
    LET income == s.total_income
        expense == s.total_expense
        metric == RoundHalfEven(1000 * SavingsNumerator(income, expense), income)
    IN  IF income > 0
        THEN IF LowSavings(income, expense)
             THEN <<Rec("Low savings rate", metric)>>
             ELSE <<Rec("Healthy savings rate", metric)>>
        ELSE <<>>

\* The top-category rule: top_total / expense > 0.35, top_total in units and
\* expense in cents; metric = round(top_total / max(expense, 1e-9) * 100, 1),
\* in tenths of a percent.
ConcentrationRule(s) ==
    LET top == s.top_categories
        expense == s.total_expense
    IN  IF top # <<>>
        THEN IF expense > 0 /\ 125 * top[1].total > 112 * expense
             THEN <<Rec("High spend in " \o top[1].category,
                        RoundHalfEven(3125 * top[1].total, 8 * expense))>>
             ELSE <<>>
        ELSE <<>>

\* s["by_category"].get("Dining", 0.0), in units.
DiningTotal(s) ==
    LET i == IndexOf(s.by_category, "Dining")
    IN  IF i = 0 THEN 0 ELSE s.by_category[i].total

\* The dining rule: dining > 150; metric = round(dining, 2), in cents.
DiningRule(s) ==
    IF DiningTotal(s) > Dollars(150)
    THEN <<Rec("Cut back on dining out", Round2(DiningTotal(s)))>>
    ELSE <<>>

\* The zero-income rule.
NoIncomeRule(s) ==
    IF s.total_income = 0 /\ s.total_expense > 0
    THEN <<Rec("No income tracked", 0)>>
    ELSE <<>>

RECURSIVE SumExpense(_, _)
\* sum(v["expense"] for v in monthly.values()) over the month keys in keys.
SumExpense(monthly, keys) ==
    IF keys = {} THEN 0
    ELSE LET k == CHOOSE x \in keys : TRUE
         IN  monthly[k].expense + SumExpense(monthly, keys \ {k})

ExpenseMonths(monthly) == Cardinality({k \in DOMAIN monthly : monthly[k].expense > 0})

\* len(s["monthly"])
MonthCount(monthly) == Cardinality(DOMAIN monthly)

EmergencyOverExpenseMonths(s) ==
    IF DOMAIN s.monthly # {}
    THEN LET total == SumExpense(s.monthly, DOMAIN s.monthly)
             n == Max(ExpenseMonths(s.monthly), 1)
         IN  IF total > 0
             THEN <<Rec("Build an emergency fund",
                        RoundHalfEven(100 * 3 * total, UnitsPerDollar * n))>>
             ELSE <<>>
    ELSE <<>>

\* The emergency-fund rule: avg_monthly_expense = sum / max(len, 1), emitted
\* when it is > 0; metric = round(avg_monthly_expense * 3, 2), in cents.
EmergencyRule(s) ==
    IF DOMAIN s.monthly # {}
    THEN LET total == SumExpense(s.monthly, DOMAIN s.monthly)
             n == Max(MonthCount(s.monthly), 1)
         IN  IF total > 0
             THEN <<Rec("Build an emergency fund",
                        RoundHalfEven(100 * 3 * total, UnitsPerDollar * n))>>
             ELSE <<>>
    ELSE <<>>

\* The list `recs` of recommendations(), in the order the rules append to it.
Recs(s) ==
    SavingsRule(s) \o ConcentrationRule(s) \o DiningRule(s) \o NoIncomeRule(s)
        \o EmergencyRule(s)

\* GET /recommendations: the summary is computed afresh.
Recommendations ==
    /\ LET s == Summary(get_documents(transaction))
       IN  out' = [op |-> "recommendations", status |-> 200,
                   body |-> [recommendations |-> Recs(s), summary |-> s]]
    /\ UNCHANGED <<transaction>>
    /\ UNCHANGED catVars

\* ------------------------------------------------------------- requests

\* Payloads posted in SpecTx.  Expenses of 1/256, 160 and 180 dollars in two
\* categories, dated January or undated; undated incomes of 1/256, 2/256 and
\* 200 dollars; three payloads the schema rejects.
TxExpensePayloads ==
    {Payload(a, "expense", c, d) :
        a \in {1, Dollars(160), Dollars(180)},
        c \in {"Rent", "Dining"},
        d \in {Datetime(2024, 1), None}}

TxIncomePayloads ==
    {Payload(a, "income", "Salary", None) : a \in {1, 2, Dollars(200)}}

TxInvalidPayloads ==
    {Payload(0, "expense", "Rent", None),
     Payload(0 - Dollars(160), "income", "Salary", None),
     Payload(Dollars(160), "transfer", "Rent", None)}

TxPayloads == TxExpensePayloads \cup TxIncomePayloads \cup TxInvalidPayloads

\* Payloads posted in SpecTop: one expense payload per category, six
\* categories, the last of twice the amount of the others.
TopCategories == <<"Groceries", "Rent", "Transport", "Dining", "Salary", "Travel">>

TopPayloads ==
    {Payload(IF i = Len(TopCategories) THEN Dollars(2) ELSE Dollars(1),
             "expense", TopCategories[i], None) : i \in 1..Len(TopCategories)}

Init ==
    /\ category = <<>>
    /\ transaction = <<>>
    /\ pc = [r \in Req |-> "idle"]
    /\ kind = [r \in Req |-> "none"]
    /\ arg = [r \in Req |-> Null]
    /\ seeded = [r \in Req |-> 0]
    /\ new_id = [r \in Req |-> 0]
    /\ pre = [r \in Req |-> <<>>]
    /\ resp = [r \in Req |-> None]
    /\ out = None

Next ==
    \E r \in ReqConc :
        \/ ListGet(r)
        \/ ListSeed(r)
        \/ ListReget(r)
        \/ \E name \in CreateNames : CreateFind(r, name)
        \/ CreateInsert(r)
        \/ CreateFetch(r)

Spec == Init /\ [][Next]_vars

NextSeq ==
    \E r \in ReqSeq :
        \/ Exclusive(r) /\ ListGet(r)
        \/ Exclusive(r) /\ ListSeed(r)
        \/ Exclusive(r) /\ ListReget(r)
        \/ \E name \in CreateNames : Exclusive(r) /\ CreateFind(r, name)
        \/ Exclusive(r) /\ CreateInsert(r)
        \/ Exclusive(r) /\ CreateFetch(r)

SpecSeq == Init /\ [][NextSeq]_vars

NextTx ==
    \/ \E p \in TxPayloads :
          (Validates(p) => Len(transaction) < MaxTx) /\ AddTransaction(p)
    \/ GetSummary
    \/ Recommendations

SpecTx == Init /\ [][NextTx]_vars

NextTop ==
    \/ \E p \in TopPayloads : Len(transaction) < MaxTop /\ AddTransaction(p)
    \/ GetSummary

SpecTop == Init /\ [][NextTop]_vars

\* ---------------------------------------------------------------- claims

\* Slot r holds the request that arrived last.
Latest(r) == \A q \in Req : q > r => Idle(q)

Names(coll) == {coll[i].name : i \in 1..Len(coll)}

Occurrences(coll, name) == Cardinality({i \in 1..Len(coll) : coll[i].name = name})

DefaultNames == <<"Groceries", "Rent", "Transport", "Dining", "Salary">>

\* C1: from an empty category collection, two GET /categories calls served one
\* after the other leave exactly the five defaults in the store: the first
\* call makes five inserts and returns the five records, the second makes
\* none and returns the same five records.
C1_TwoListCallsSeedOnce ==
    (kind[1] = "list" /\ kind[2] = "list" /\ Done(2) /\ Latest(2)) =>
        /\ Len(category) = 5
        /\ \A i \in 1..5 : category[i].name = DefaultNames[i]
        /\ seeded[1] = 5
        /\ seeded[2] = 0
        /\ resp[1].status = 200
        /\ resp[2].status = 200
        /\ Len(resp[1].body) = 5
        /\ resp[2].body = resp[1].body
        /\ \A i \in 1..5 : /\ resp[2].body[i].name = DefaultNames[i]
                           /\ resp[2].body[i].id = ToString(category[i]._id)

\* Two GET /categories calls have been served in turn, starting from the empty
\* collection.
C1_Witness ==
    /\ kind[1] = "list" /\ kind[2] = "list" /\ Done(2) /\ Latest(2)
    /\ pre[1] = <<>>
    /\ Len(pre[2]) = 5
    /\ Len(category) = 5

\* C2: in every state reachable by interleaving the store reads and inserts
\* of GET /categories and POST /categories requests, no two stored categories
\* have the same name.
C2_NamesUnique ==
    \A i, j \in 1..Len(category) : i # j => category[i].name # category[j].name

\* C3: when two GET /categories requests both read the empty collection
\* (before either has inserted) and both have returned, and no other request
\* has inserted, the store holds ten records, each default name twice.
C3_DoubleSeed ==
    \A r1, r2 \in ReqConc :
        ( /\ r1 # r2
          /\ kind[r1] = "list" /\ kind[r2] = "list"
          /\ pre[r1] = <<>> /\ pre[r2] = <<>>
          /\ seeded[r1] > 0 /\ seeded[r2] > 0
          /\ Done(r1) /\ Done(r2)
          /\ \A q \in Req \ {r1, r2} : seeded[q] = 0 /\ new_id[q] = 0 )
        => /\ Len(category) = 10
           /\ \A i \in 1..5 : Occurrences(category, DefaultNames[i]) = 2

\* Both requests found the collection empty, both seeded, both returned.
C3_Witness ==
    /\ kind[1] = "list" /\ kind[2] = "list"
    /\ pre[1] = <<>> /\ pre[2] = <<>>
    /\ Done(1) /\ Done(2)
    /\ Len(category) = 10

\* C4: POST /categories served on its own: with a name some stored category
\* has, it answers 400 and leaves the collection as it was; with a new
\* name it appends exactly one category of that name and returns it.
C4_CreateCategory ==
    \A r \in Req :
        (kind[r] = "create" /\ Done(r) /\ Latest(r)) =>
            IF arg[r] \in Names(pre[r])
            THEN /\ resp[r].status = 400
                 /\ category = pre[r]
            ELSE /\ resp[r].status = 200
                 /\ Len(category) = Len(pre[r]) + 1
                 /\ SubSeq(category, 1, Len(pre[r])) = pre[r]
                 /\ category[Len(category)].name = arg[r]
                 /\ resp[r].body.name = arg[r]
                 /\ resp[r].body.id = ToString(category[Len(category)]._id)

\* A POST of a new name has succeeded and a later POST of the same name has
\* been refused.
C4_Witness ==
    \E r1, r2 \in Req :
        /\ r1 < r2
        /\ kind[r1] = "create" /\ kind[r2] = "create"
        /\ arg[r1] = arg[r2]
        /\ Done(r2) /\ Latest(r2)
        /\ resp[r1].status = 200
        /\ resp[r2].status = 400

\* The stored transactions of one type.
StoredOfType(type) == {i \in 1..Len(transaction) : transaction[i].type = type}

RECURSIVE AmountSum(_)
\* The exact sum of the amounts (in units) of the stored transactions at idx.
AmountSum(idx) ==
    IF idx = {} THEN 0
    ELSE LET i == CHOOSE x \in idx : TRUE
         IN  transaction[i].amount + AmountSum(idx \ {i})

RECURSIVE TotalsSum(_, _)
\* sum(by_category.values()) over the first n entries.
TotalsSum(byCat, n) == IF n = 0 THEN 0 ELSE byCat[n].total + TotalsSum(byCat, n - 1)

\* The stored expenses of category cat.
ExpensesOf(cat) == {i \in StoredOfType("expense") : transaction[i].category = cat}

\* Every amount of the stored transactions at idx is a whole number of cents.
WholeCents(idx) == \A i \in idx : (100 * transaction[i].amount) % UnitsPerDollar = 0

\* c cents is a nearest whole number of cents to n/d dollars-in-units, i.e.
\* |c - 100 * n / (UnitsPerDollar * d)| <= 1/2.
NearestCents(c, n, d) ==
    LET diff == c * UnitsPerDollar * d - 100 * n
    IN  2 * diff <= UnitsPerDollar * d /\ 2 * diff >= 0 - UnitsPerDollar * d

Answered(op) == out # None /\ out.op = op /\ out.status = 200

\* C5: every stored transaction has amount > 0 and type expense or income, and
\* a POST /transactions whose amount is <= 0 or whose type is another value is
\* answered 422 and leaves the collection unchanged.
C5_StoredTransactionsValid ==
    /\ [](\A i \in 1..Len(transaction) :
             /\ transaction[i].amount > 0
             /\ transaction[i].type \in {"expense", "income"})
    /\ [][(/\ out' # None
           /\ out'.op = "add_transaction"
           /\ (out'.request.amount <= 0
                 \/ out'.request.type \notin {"expense", "income"}))
          => (out'.status = 422 /\ transaction' = transaction)]_vars

\* A payload with amount 0 has been refused while transactions are stored.
C5_Witness ==
    /\ out # None
    /\ out.op = "add_transaction"
    /\ out.request.amount = 0
    /\ out.status = 422
    /\ Len(transaction) > 0

\* C6 as stated: the sum of the values of by_category is <= total_expense (and
\* equal to it when every expense has a category).
C6_ByCategoryAtMostTotal ==
    Answered("get_summary") =>
        LET s == out.body
        IN  100 * TotalsSum(s.by_category, Len(s.by_category))
                <= UnitsPerDollar * s.total_expense

\* C6, amended: the sum of the values of by_category is the exact sum of the
\* stored expense amounts (no income in it), total_expense is that sum rounded
\* to the nearest cent, and the two are equal when every expense amount is a
\* whole number of cents.
C6_ByCategorySumsExpenses ==
    Answered("get_summary") =>
        LET s == out.body
            byCat == TotalsSum(s.by_category, Len(s.by_category))
            exp == StoredOfType("expense")
        IN  /\ byCat = AmountSum(exp)
            /\ \A i \in 1..Len(s.by_category) :
                   s.by_category[i].total = AmountSum(ExpensesOf(s.by_category[i].category))
            /\ NearestCents(s.total_expense, byCat, 1)
            /\ WholeCents(exp) => 100 * byCat = UnitsPerDollar * s.total_expense

\* A summary of a store holding an income, a whole-dollar expense and an
\* expense of 1/256 dollar.
C6_Witness ==
    /\ Answered("get_summary")
    /\ StoredOfType("income") # {}
    /\ \E i, j \in StoredOfType("expense") :
           transaction[i].amount = 1 /\ transaction[j].amount = Dollars(160)
    /\ out.body.total_expense = 16000

\* C8 as stated: the returned total_income - total_expense equals the returned
\* net.
C8_NetIsDifferenceOfTotals ==
    Answered("get_summary") =>
        out.body.total_income - out.body.total_expense = out.body.net

\* C8, amended: net is the exact income minus the exact expense, rounded to
\* the nearest cent; it differs from the returned total_income - total_expense
\* by at most one cent, and not at all when every amount is a whole number of
\* cents.
C8_NetIsRoundedDifference ==
    Answered("get_summary") =>
        LET s == out.body
            exact == AmountSum(StoredOfType("income")) - AmountSum(StoredOfType("expense"))
            gap == s.total_income - s.total_expense - s.net
        IN  /\ NearestCents(s.net, exact, 1)
            /\ gap \in {-1, 0, 1}
            /\ WholeCents(1..Len(transaction)) => gap = 0

\* A summary whose rounded totals differ by a cent while net is 0.00.
C8_Witness ==
    /\ Answered("get_summary")
    /\ out.body.total_income = 1
    /\ out.body.total_expense = 0
    /\ out.body.net = 0
    /\ StoredOfType("expense") # {}

\* The categories of the stored expenses.
ExpenseCategories == {transaction[i].category : i \in StoredOfType("expense")}

\* The position of the first stored expense of category cat.
FirstSeen(cat) ==
    CHOOSE i \in ExpensesOf(cat) : \A j \in ExpensesOf(cat) : i <= j

\* C7: top_categories holds min(5, number of expense categories) entries, each
\* a distinct category with its expense total, in descending order of total,
\* equal totals in the order the categories were first encountered; no
\* category left out ranks before one that is in.
C7_TopCategories ==
    Answered("get_summary") =>
        LET top == out.body.top_categories
            in == {top[i].category : i \in 1..Len(top)}
        IN  /\ Len(top) = Min(5, Cardinality(ExpenseCategories))
            /\ \A i \in 1..Len(top) :
                   /\ top[i].category \in ExpenseCategories
                   /\ top[i].total = AmountSum(ExpensesOf(top[i].category))
            /\ \A i, j \in 1..Len(top) :
                   i < j =>
                       /\ top[i].category # top[j].category
                       /\ top[i].total >= top[j].total
                       /\ top[i].total = top[j].total =>
                              FirstSeen(top[i].category) < FirstSeen(top[j].category)
            /\ \A c \in ExpenseCategories \ in :
                   \A i \in 1..Len(top) :
                       /\ top[i].total >= AmountSum(ExpensesOf(c))
                       /\ top[i].total = AmountSum(ExpensesOf(c)) =>
                              FirstSeen(top[i].category) < FirstSeen(c)

\* A summary over six expense categories: the category encountered last has
\* the highest total and comes first, four of the five tied ones follow.
C7_Witness ==
    /\ Answered("get_summary")
    /\ Cardinality(ExpenseCategories) = 6
    /\ Len(out.body.top_categories) = 5
    /\ out.body.top_categories[1].category = "Travel"
    /\ FirstSeen("Travel") = 6
    /\ out.body.top_categories[2].total = out.body.top_categories[5].total
    /\ out.body.top_categories[2].category = "Salary"

SavingsTitles == {"Low savings rate", "Healthy savings rate"}

\* The spec's scenario: an income of 1000 and an expense of 900 in "Rent".
Scenario1000and900 ==
    << [_id |-> 1] @@ Payload(Dollars(1000), "income", "Salary", Datetime(2024, 1)),
       [_id |-> 2] @@ Payload(Dollars(900), "expense", "Rent", Datetime(2024, 1)) >>

\* C9: a savings-rate recommendation is emitted iff total_income > 0, then
\* exactly one, first in the list; with rate = max(0, (income - expense) /
\* income) its title is "Low savings rate" when rate < 0.20 and "Healthy
\* savings rate" otherwise, and its metric is rate x 100 to the nearest tenth.
\* Income 1000 and expense 900 give "Low savings rate" with metric 10.0.
C9_SavingsRule ==
    Answered("recommendations") =>
        LET recs == out.body.recommendations
            income == out.body.summary.total_income
            expense == out.body.summary.total_expense
            at == {k \in 1..Len(recs) : recs[k].title \in SavingsTitles}
            num == IF income - expense > 0 THEN income - expense ELSE 0
            err == IF recs = <<>> THEN 0 ELSE recs[1].metric * income - 1000 * num
        IN  /\ IF income > 0
               THEN /\ at = {1}
                    /\ recs[1].title = IF 5 * num < income THEN "Low savings rate"
                                       ELSE "Healthy savings rate"
                    /\ 2 * err <= income
                    /\ 2 * err >= 0 - income
               ELSE at = {}
            /\ Recs(Summary(Scenario1000and900))[1] = Rec("Low savings rate", 100)

\* The scenario's rate: income 200, expense 180, "Low savings rate" 10.0,
\* followed by other recommendations.
C9_Witness ==
    /\ Answered("recommendations")
    /\ out.body.summary.total_income = 20000
    /\ out.body.summary.total_expense = 18000
    /\ out.body.recommendations[1] = Rec("Low savings rate", 100)
    /\ Len(out.body.recommendations) > 1

\* C10: "Build an emergency fund" is emitted iff some stored transaction is an
\* expense (the exact expense sum is > 0); it is then the last recommendation
\* and its metric is 3 x (expense sum / number of month buckets, income-only
\* buckets counted) to the nearest cent.  With no transaction the list is
\* empty.
C10_EmergencyFund ==
    Answered("recommendations") =>
        LET recs == out.body.recommendations
            s == out.body.summary
            at == {k \in 1..Len(recs) : recs[k].title = "Build an emergency fund"}
            exp == StoredOfType("expense")
            n == Cardinality(DOMAIN s.monthly)
        IN  /\ (at # {}) <=> (exp # {})
            /\ (exp # {}) <=> (AmountSum(exp) > 0)
            /\ n = Cardinality({transaction[i].date : i \in 1..Len(transaction)})
            /\ at # {} =>
                   /\ at = {Len(recs)}
                   /\ NearestCents(recs[Len(recs)].metric, 3 * AmountSum(exp), n)
            /\ transaction = <<>> => recs = <<>>

\* Recommendations over an expense in one month and an income in another:
\* two buckets, one without expense.
C10_Witness ==
    /\ Answered("recommendations")
    /\ Len(out.body.recommendations) >= 2
    /\ out.body.recommendations[Len(out.body.recommendations)].title
           = "Build an emergency fund"
    /\ Cardinality(DOMAIN out.body.summary.monthly) = 2
    /\ \E k \in DOMAIN out.body.summary.monthly :
           out.body.summary.monthly[k].expense = 0

====
